---- MODULE Spec2Model ----
(***************************************************************************)
(* Model of cloudinit/ssh_util.py: the authorized_keys line parser, the    *)
(* key-set merge (update_authorized_keys), the sshd_config parser and the  *)
(* AuthorizedKeysFile locator (extract_authorized_keys).                   *)
(*                                                                         *)
(* A Python string is a sequence of one-character strings.  The Python     *)
(* value None is the one-element sequence None below, which no string of   *)
(* characters equals.                                                      *)
(***************************************************************************)
EXTENDS Integers, Sequences, FiniteSets

VARIABLES
    \* ---- AuthKeyLineParser.parse / AuthKeyLine.__str__ ----
    src_line,      \* the raw line handed to parse
    def_opt,       \* the def_opt argument of the call
    ppc,           \* "init" -> "parsed" -> "rendered" -> "reparsed"
    ent,           \* the AuthKeyLine returned by parse
    rendered,      \* str(ent)
    ent2,          \* parse(str(ent))
    \* ---- update_authorized_keys ----
    old_entries,   \* the caller's list, mutated in place by the merge
    keys,          \* the desired entries
    prev_entries,  \* old_entries as it was when the last call started
    content,       \* the text returned by the last call
    prev_content,  \* the text returned by the call before the last one
    merges,        \* number of calls made so far
    \* ---- parse_ssh_config / parse_ssh_config_map / extract_authorized_keys ----
    cfg_file,      \* [exists, readable, text] of the sshd_config file
    pw_dir,        \* pw_ent.pw_dir, the user's home directory
    username,
    call,          \* which function was called: "none" or its name
    outcome,       \* "none", "ok", or the exception raised to the caller
    result         \* the value returned when outcome = "ok"

parse_vars == <<src_line, def_opt, ppc, ent, rendered, ent2>>
merge_vars == <<old_entries, keys, prev_entries, content, prev_content, merges>>
cfg_vars   == <<cfg_file, pw_dir, username, call, outcome, result>>
vars == <<parse_vars, merge_vars, cfg_vars>>

(***************************************************************************)
(* Python values and string primitives                                     *)
(***************************************************************************)
None == <<"None">>

\* Python truth value of an optional string: None and '' are false.
Truthy(s) == s # None /\ s # <<>>

\* The characters str.strip() and str.split(None) treat as whitespace.
WS == {" ", "\t", "\n", "\r"}

Drop(s, n) == SubSeq(s, n + 1, Len(s))

RECURSIVE LStrip(_, _)
LStrip(s, cs) ==
    IF s # <<>> /\ Head(s) \in cs THEN LStrip(Tail(s), cs) ELSE s

RECURSIVE RStrip(_, _)
RStrip(s, cs) ==
    IF s # <<>> /\ s[Len(s)] \in cs THEN RStrip(SubSeq(s, 1, Len(s) - 1), cs)
    ELSE s

\* s.strip()
Strip(s) == LStrip(RStrip(s, WS), WS)

\* s.startswith(p)
StartsWith(s, p) == Len(s) >= Len(p) /\ SubSeq(s, 1, Len(p)) = p

\* length of the longest prefix of s with no character in cs
RECURSIVE SpanNot(_, _)
SpanNot(s, cs) ==
    IF s = <<>> \/ Head(s) \in cs THEN 0 ELSE 1 + SpanNot(Tail(s), cs)

\* s.split(None, maxsplit): at most maxsplit splits on runs of whitespace;
\* the last piece keeps the rest of the string, leading whitespace skipped.
RECURSIVE SplitWS(_, _)
SplitWS(s, maxsplit) ==
    LET t == LStrip(s, WS) IN
    IF t = <<>> THEN <<>>
    ELSE IF maxsplit = 0 THEN <<t>>
    ELSE LET n == SpanNot(t, WS) IN
         <<SubSeq(t, 1, n)>> \o SplitWS(Drop(t, n), maxsplit - 1)

\* sep.join(parts)
RECURSIVE Join(_, _)
Join(parts, sep) ==
    IF parts = <<>> THEN <<>>
    ELSE IF Len(parts) = 1 THEN parts[1]
    ELSE parts[1] \o sep \o Join(Tail(parts), sep)

\* s.split(sep) for a one-character separator: always at least one piece
RECURSIVE SplitChar(_, _)
SplitChar(s, c) ==
    LET n == SpanNot(s, {c}) IN
    IF n = Len(s) THEN <<s>>
    ELSE <<SubSeq(s, 1, n)>> \o SplitChar(Drop(s, n + 1), c)

(***************************************************************************)
(* AuthKeyLine                                                             *)
(***************************************************************************)
AuthKeyLine(source, keytype, base64, comment, options) ==
    [source |-> source, keytype |-> keytype, base64 |-> base64,
     comment |-> comment, options |-> options]

empty(e) ==
    ~Truthy(e.base64) /\ ~Truthy(e.comment) /\ ~Truthy(e.keytype)
        /\ ~Truthy(e.options)

str_toks(e) ==
    (IF Truthy(e.options) THEN <<e.options>> ELSE <<>>)
    \o (IF Truthy(e.keytype) THEN <<e.keytype>> ELSE <<>>)
    \o (IF Truthy(e.base64) THEN <<e.base64>> ELSE <<>>)
    \o (IF Truthy(e.comment) THEN <<e.comment>> ELSE <<>>)

str(e) ==
    IF str_toks(e) = <<>> THEN e.source ELSE Join(str_toks(e), <<" ">>)

(***************************************************************************)
(* AuthKeyLineParser                                                       *)
(***************************************************************************)
\* The while loop of _extract_options, from position i (0-based) with the
\* given quoted flag; the value is i when the loop ends.
RECURSIVE scan_options(_, _, _)
scan_options(e, i, quoted) ==
    IF ~(i < Len(e) /\ (quoted \/ e[i + 1] \notin {" ", "\t"})) THEN i
    ELSE IF i + 1 >= Len(e) THEN i + 1
    ELSE IF e[i + 1] = "\\" /\ e[i + 2] = "\"" THEN scan_options(e, i + 2, quoted)
    ELSE IF e[i + 1] = "\"" THEN scan_options(e, i + 1, ~quoted)
    ELSE scan_options(e, i + 1, quoted)

\* csv.reader(..., quoting=QUOTE_NONE) over the options field: the quote
\* character is ordinary, so the row is the field split at every comma;
\* each piece is stripped and the empty ones are dropped.
RECURSIVE strip_nonempty(_)
strip_nonempty(row) ==
    IF row = <<>> THEN <<>>
    ELSE LET x == Strip(Head(row)) IN
         (IF x # <<>> THEN <<x>> ELSE <<>>) \o strip_nonempty(Tail(row))

csv_options(options) ==
    IF options = <<>> THEN <<>> ELSE strip_nonempty(SplitChar(options, ","))

\* _extract_options(ent) = (options_lst, toks)
_extract_options(e) ==
    LET i == scan_options(e, 0, FALSE) IN
    [options_lst |-> csv_options(SubSeq(e, 1, i)),
     toks |-> IF i + 1 < Len(e) THEN SplitWS(Drop(e, i + 1), 2) ELSE <<>>]

\* components['options'] is always set, so the AuthKeyLine(src_line) branch
\* of the source is never taken; fields not set default to None.
_form_components(src, toks, options) ==
    IF Len(toks) = 1 THEN AuthKeyLine(src, None, toks[1], None, options)
    ELSE IF Len(toks) = 2 THEN AuthKeyLine(src, None, toks[1], toks[2], options)
    ELSE IF Len(toks) = 3 THEN AuthKeyLine(src, toks[1], toks[2], toks[3], options)
    ELSE AuthKeyLine(src, None, None, None, options)

parse(src, dopt) ==
    LET line == RStrip(src, {"\r", "\n"}) IN
    IF StartsWith(line, <<"#">>) \/ Strip(line) = <<>>
    THEN AuthKeyLine(src, None, None, None, None)
    ELSE LET e == Strip(line)
             toks == SplitWS(e, 3)
         IN IF Len(toks) < 4 THEN _form_components(src, toks, dopt)
            ELSE LET x == _extract_options(e) IN
                 _form_components(src, x.toks,
                     IF x.options_lst # <<>> THEN Join(x.options_lst, <<",">>)
                     ELSE dopt)

(***************************************************************************)
(* update_authorized_keys                                                  *)
(*                                                                         *)
(* AuthKeyLine defines no __eq__, so "k in to_add" and to_add.remove(k)    *)
(* compare object identity.  An entry of a list is the record of its       *)
(* fields together with an id naming the instance.                         *)
(***************************************************************************)
Instance(id, e) ==
    [id |-> id, source |-> e.source, keytype |-> e.keytype,
     base64 |-> e.base64, comment |-> e.comment, options |-> e.options]

\* k in lst
InList(k, lst) == \E j \in 1..Len(lst) : lst[j] = k

\* lst.remove(k): drops the first element equal to k
RECURSIVE list_remove(_, _)
list_remove(lst, k) ==
    IF lst = <<>> THEN <<>>
    ELSE IF Head(lst) = k THEN Tail(lst)
    ELSE <<Head(lst)>> \o list_remove(Tail(lst), k)

\* Variants of scan_keys with a slip in them, used to show that the merge
\* properties below depend on the loop as written.
\* (a) the scan stops at the first match
RECURSIVE scan_keys_first_wins(_, _, _)
scan_keys_first_wins(e, ks, to_add) ==
    IF ks = <<>> THEN [ent |-> e, to_add |-> to_add]
    ELSE LET k == Head(ks) IN
         IF empty(k) \/ ~Truthy(k.base64)
         THEN scan_keys_first_wins(e, Tail(ks), to_add)
         ELSE IF k.base64 = e.base64
              THEN [ent |-> k,
                    to_add |-> IF InList(k, to_add) THEN list_remove(to_add, k)
                               ELSE to_add]
              ELSE scan_keys_first_wins(e, Tail(ks), to_add)

\* (b) only the entry that ends up stored is removed from to_add
RECURSIVE last_match(_, _)
last_match(e, ks) ==
    IF ks = <<>> THEN e
    ELSE IF Truthy(Head(ks).base64) /\ Head(ks).base64 = e.base64
         THEN last_match(Head(ks), Tail(ks))
         ELSE last_match(e, Tail(ks))

scan_keys_winner_only(e, ks, to_add) ==
    LET w == last_match(e, ks) IN
    [ent |-> w,
     to_add |-> IF InList(w, to_add) THEN list_remove(to_add, w) ELSE to_add]

\* (c) nothing is removed from to_add
scan_keys_no_remove(e, ks, to_add) ==
    [ent |-> last_match(e, ks), to_add |-> to_add]

\* "for k in keys" over the keys ks not yet visited, for one old entry:
\* the value is the entry to store and the remaining to_add.
RECURSIVE scan_keys(_, _, _)
scan_keys(e, ks, to_add) ==
    IF ks = <<>> THEN [ent |-> e, to_add |-> to_add]
    ELSE LET k == Head(ks) IN
         IF empty(k) \/ ~Truthy(k.base64) THEN scan_keys(e, Tail(ks), to_add)
         ELSE IF k.base64 = e.base64
              THEN scan_keys(k, Tail(ks),
                             IF InList(k, to_add) THEN list_remove(to_add, k)
                             ELSE to_add)
              ELSE scan_keys(e, Tail(ks), to_add)

\* Variant of merge_loop that stops one entry short of the end of the list.
RECURSIVE merge_loop_skip_last(_, _, _, _)
merge_loop_skip_last(old, i, ks, to_add) ==
    IF i > Len(old) - 1 THEN [old_entries |-> old, to_add |-> to_add]
    ELSE IF empty(old[i]) \/ ~Truthy(old[i].base64)
         THEN merge_loop_skip_last(old, i + 1, ks, to_add)
         ELSE LET r == scan_keys(old[i], ks, to_add) IN
              merge_loop_skip_last([old EXCEPT ![i] = r.ent], i + 1, ks,
                                   r.to_add)

\* "for i in range(0, len(old_entries))" from 1-based position i on
RECURSIVE merge_loop(_, _, _, _)
merge_loop(old, i, ks, to_add) ==
    IF i > Len(old) THEN [old_entries |-> old, to_add |-> to_add]
    ELSE IF empty(old[i]) \/ ~Truthy(old[i].base64)
         THEN merge_loop(old, i + 1, ks, to_add)
         ELSE LET r == scan_keys(old[i], ks, to_add) IN
              merge_loop([old EXCEPT ![i] = r.ent], i + 1, ks, r.to_add)

RECURSIVE str_all(_)
str_all(lst) ==
    IF lst = <<>> THEN <<>> ELSE <<str(Head(lst))>> \o str_all(Tail(lst))

\* the list old_entries is left holding, and the text returned
update_authorized_keys(old, ks) ==
    LET m == merge_loop(old, 1, ks, ks)
        entries == m.old_entries \o m.to_add
    IN [old_entries |-> entries,
        text |-> Join(str_all(entries) \o <<<<>>>>, <<"\n">>)]

(***************************************************************************)
(* sshd_config parsing and the AuthorizedKeysFile locator                  *)
(***************************************************************************)
UpperCs == <<"A", "B", "C", "D", "E", "F", "G", "H", "I", "J", "K", "L", "M",
             "N", "O", "P", "Q", "R", "S", "T", "U", "V", "W", "X", "Y", "Z">>
LowerCs == <<"a", "b", "c", "d", "e", "f", "g", "h", "i", "j", "k", "l", "m",
             "n", "o", "p", "q", "r", "s", "t", "u", "v", "w", "x", "y", "z">>

\* s.lower()
Lower(s) ==
    [i \in 1..Len(s) |->
        IF \E n \in 1..26 : UpperCs[n] = s[i]
        THEN LowerCs[CHOOSE n \in 1..26 : UpperCs[n] = s[i]]
        ELSE s[i]]

\* s.splitlines(): lines end at "\n", "\r" or "\r\n"; no piece after the
\* last terminator
RECURSIVE SplitLines(_)
SplitLines(s) ==
    IF s = <<>> THEN <<>>
    ELSE LET n == SpanNot(s, {"\n", "\r"}) IN
         IF n = Len(s) THEN <<s>>
         ELSE LET t == IF s[n + 1] = "\r" /\ n + 2 <= Len(s) /\ s[n + 2] = "\n"
                       THEN 2 ELSE 1
              IN <<SubSeq(s, 1, n)>> \o SplitLines(Drop(s, n + t))

\* s.replace(old, new): leftmost, non-overlapping occurrences (old non-empty)
RECURSIVE Replace(_, _, _)
Replace(s, old, new) ==
    IF Len(s) < Len(old) THEN s
    ELSE IF StartsWith(s, old) THEN new \o Replace(Drop(s, Len(old)), old, new)
    ELSE <<Head(s)>> \o Replace(Tail(s), old, new)

\* os.path.join(a, b)
path_join(a, b) ==
    IF StartsWith(b, <<"/">>) THEN b
    ELSE IF a = <<>> \/ a[Len(a)] = "/" THEN a \o b
    ELSE a \o <<"/">> \o b

SshdConfigLine(line, k, v) == [line |-> line, _key |-> k, value |-> v]

\* the key property of SshdConfigLine
key(l) == IF l._key = None THEN None ELSE Lower(l._key)

\* Variant of parse_config_lines that skips a line with no value.
RECURSIVE parse_config_lines_lenient(_, _)
parse_config_lines_lenient(ls, acc) ==
    IF ls = <<>> THEN [exc |-> "none", lines |-> acc]
    ELSE LET line == Strip(Head(ls)) IN
         IF line = <<>> \/ StartsWith(line, <<"#">>)
         THEN parse_config_lines_lenient(Tail(ls),
                  Append(acc, SshdConfigLine(line, None, None)))
         ELSE LET kv == SplitWS(line, 1) IN
              IF Len(kv) # 2 THEN parse_config_lines_lenient(Tail(ls), acc)
              ELSE parse_config_lines_lenient(Tail(ls),
                       Append(acc, SshdConfigLine(line, kv[1], kv[2])))

\* the for loop of parse_ssh_config over the physical lines ls not yet read;
\* the unpacking of a one-element split raises ValueError
RECURSIVE parse_config_lines(_, _)
parse_config_lines(ls, acc) ==
    IF ls = <<>> THEN [exc |-> "none", lines |-> acc]
    ELSE LET line == Strip(Head(ls)) IN
         IF line = <<>> \/ StartsWith(line, <<"#">>)
         THEN parse_config_lines(Tail(ls),
                                 Append(acc, SshdConfigLine(line, None, None)))
         ELSE LET kv == SplitWS(line, 1) IN
              IF Len(kv) # 2 THEN [exc |-> "ValueError", lines |-> None]
              ELSE parse_config_lines(Tail(ls),
                       Append(acc, SshdConfigLine(line, kv[1], kv[2])))

\* parse_ssh_config(fname) on the file f
parse_ssh_config(f) ==
    IF ~f.exists THEN [exc |-> "none", lines |-> <<>>]
    ELSE IF ~f.readable THEN [exc |-> "IOError", lines |-> None]
    ELSE parse_config_lines(SplitLines(f.text), <<>>)

\* the for loop of parse_ssh_config_map; a dict is a function on its keys
RECURSIVE build_map(_, _)
build_map(ls, ret) ==
    IF ls = <<>> THEN ret
    ELSE LET l == Head(ls) IN
         IF ~Truthy(key(l)) THEN build_map(Tail(ls), ret)
         ELSE build_map(Tail(ls),
                  [k \in DOMAIN ret \cup {key(l)} |->
                      IF k = key(l) THEN l.value ELSE ret[k]])

EmptyMap == [k \in {} |-> <<>>]

parse_ssh_config_map(f) ==
    LET p == parse_ssh_config(f) IN
    IF p.exc # "none" THEN [exc |-> p.exc, map |-> None]
    ELSE [exc |-> "none", map |-> build_map(p.lines, EmptyMap)]

AUTHORIZEDKEYSFILE == <<"a", "u", "t", "h", "o", "r", "i", "z", "e", "d", "k", "e", "y", "s", "f", "i", "l", "e">>
DEF_TEMPLATE == <<"%", "h", "/", ".", "s", "s", "h", "/", "a", "u", "t", "h", "o", "r", "i", "z", "e", "d", "_", "k", "e", "y", "s">>
DOT_SSH == <<".", "s", "s", "h">>
AUTHORIZED_KEYS == <<"a", "u", "t", "h", "o", "r", "i", "z", "e", "d", "_", "k", "e", "y", "s">>

\* the three replacements of extract_authorized_keys
substitute(fn, home, user) ==
    Replace(Replace(Replace(fn, <<"%", "h">>, home), <<"%", "u">>, user),
            <<"%", "%">>, <<"%">>)

\* extract_authorized_keys up to the file name it settles on; IOError and
\* OSError are caught and give the default name, any other error propagates
extract_authorized_keys(f, home, user) ==
    LET m == parse_ssh_config_map(f) IN
    IF m.exc = "IOError"
    THEN [exc |-> "none", substituted |-> None,
          auth_key_fn |-> path_join(path_join(home, DOT_SSH), AUTHORIZED_KEYS)]
    ELSE IF m.exc # "none"
    THEN [exc |-> m.exc, substituted |-> None, auth_key_fn |-> None]
    ELSE LET got == IF AUTHORIZEDKEYSFILE \in DOMAIN m.map
                    THEN Strip(m.map[AUTHORIZEDKEYSFILE]) ELSE <<>>
             fn == IF got = <<>> THEN DEF_TEMPLATE ELSE got
             sub == substitute(fn, home, user)
         IN [exc |-> "none", substituted |-> sub,
             auth_key_fn |-> IF StartsWith(sub, <<"/">>) THEN sub
                             ELSE path_join(home, sub)]

(***************************************************************************)
(* Specification of the line parser: a raw line is parsed, the entry is    *)
(* rendered with str(), and the rendered text is parsed again.             *)
(***************************************************************************)
MaxLineLen == 7

\* The characters raw lines are made of: a key character, blank, double
\* quote, comma and hash.  A line may end with a line terminator.
LineChars == {"k", " ", "\"", ",", "#"}
LineEnds == {<<>>, <<"\n">>}
DefOpts == {None, <<"o">>}

StringsUpTo(cs, n) == UNION {[1..m -> cs] : m \in 0..n}

Idle == <<>>

InitMergeIdle ==
    /\ old_entries = <<>> /\ keys = <<>> /\ prev_entries = <<>>
    /\ content = None /\ prev_content = None /\ merges = 0

InitCfgIdle ==
    /\ cfg_file = Idle /\ pw_dir = <<>> /\ username = <<>>
    /\ call = "none" /\ outcome = "none" /\ result = None

InitParseIdle ==
    /\ src_line = <<>> /\ def_opt = None /\ ppc = "idle"
    /\ ent = None /\ rendered = None /\ ent2 = None

InitParse ==
    /\ \E core \in StringsUpTo(LineChars, MaxLineLen), eol \in LineEnds :
           src_line = core \o eol
    /\ def_opt = None
    /\ ppc = "init"
    /\ ent = None /\ rendered = None /\ ent2 = None
    /\ InitMergeIdle /\ InitCfgIdle

\* parser.parse(src_line, def_opt=d)
Parse(d) ==
    /\ ppc = "init"
    /\ def_opt' = d
    /\ ent' = parse(src_line, d)
    /\ ppc' = "parsed"
    /\ UNCHANGED <<src_line, rendered, ent2, merge_vars, cfg_vars>>

\* str(ent)
Render ==
    /\ ppc = "parsed"
    /\ rendered' = str(ent)
    /\ ppc' = "rendered"
    /\ UNCHANGED <<src_line, def_opt, ent, ent2, merge_vars, cfg_vars>>

\* parser.parse(str(ent), def_opt)
Reparse ==
    /\ ppc = "rendered"
    /\ ent2' = parse(rendered, def_opt)
    /\ ppc' = "reparsed"
    /\ UNCHANGED <<src_line, def_opt, ent, rendered, merge_vars, cfg_vars>>

NextParse == (\E d \in DefOpts : Parse(d)) \/ Render \/ Reparse

SpecParse == InitParse /\ [][NextParse]_vars

(***************************************************************************)
(* Specification of the merge: the existing entries are the parsed lines   *)
(* of an authorized_keys file, the desired entries the parsed keys; the    *)
(* merge is then called, and called again on the list it left behind.      *)
(***************************************************************************)
MaxExisting == 2
MaxKeys == 3
MaxMerges == 2

\* lines of the existing file (parse_authorized_keys, no default options)
FileLines == { <<>>, <<"X">>, <<"X", " ", "c">>, <<"Y">> }

\* keys handed to setup_user_keys, parsed as given
KeyLines ==
    { <<"#", "\n">>, <<"X">>, <<"X", " ", "d">>,
      <<"o", " ", "k", " ", "Y", " ", "c">> }

\* an entry constructed directly with base64='' and only a comment
BlankKeyEntry == AuthKeyLine(<<>>, None, <<>>, <<"c">>, None)

ExistingShapes == {parse(l, None) : l \in FileLines} \cup {BlankKeyEntry}
KeyShapes == {parse(l, None) : l \in KeyLines} \cup {BlankKeyEntry}

SeqsUpTo(S, n) == UNION {[1..m -> S] : m \in 0..n}

InitMerge ==
    /\ \E es \in SeqsUpTo(ExistingShapes, MaxExisting) :
           old_entries = [i \in 1..Len(es) |-> Instance(<<"old", i>>, es[i])]
    /\ \E ks \in SeqsUpTo(KeyShapes, MaxKeys) :
           keys = [j \in 1..Len(ks) |-> Instance(<<"key", j>>, ks[j])]
    /\ prev_entries = <<>>
    /\ content = None /\ prev_content = None
    /\ merges = 0
    /\ InitParseIdle /\ InitCfgIdle

\* content = update_authorized_keys(old_entries, keys)
Merge ==
    /\ merges < MaxMerges
    /\ LET r == update_authorized_keys(old_entries, keys) IN
           /\ old_entries' = r.old_entries
           /\ content' = r.text
    /\ prev_entries' = old_entries
    /\ prev_content' = content
    /\ merges' = merges + 1
    /\ UNCHANGED <<keys, parse_vars, cfg_vars>>

NextMerge == Merge

SpecMerge == InitMerge /\ [][NextMerge]_vars

(***************************************************************************)
(* Specification of the sshd_config functions: each is called once on an   *)
(* sshd_config file that is missing, unreadable, or holds some text.       *)
(***************************************************************************)
MaxTmplLen == 6
MaxCfgLines == 3

TmplChars == {"%", "h", "u", "/"}

DIRECTIVE == <<"A", "u", "t", "h", "o", "r", "i", "z", "e", "d", "K", "e", "y", "s", "F", "i", "l", "e">>

\* physical lines of an sshd_config file
CfgLineShapes ==
    { <<>>,
      <<"#", " ", "c">>,
      <<"P", "o", "r", "t", " ", "2", "2">>,
      <<"P", "o", "r", "t">>,
      <<" ", "U", "s", "e", "P", "A", "M", "\t">>,
      <<"A", "u", "t", "h", "o", "r", "i", "z", "e", "d", "K", "e", "y", "s", "F", "i", "l", "e", " ", "x">>,
      <<"a", "u", "t", "h", "o", "r", "i", "z", "e", "d", "k", "e", "y", "s", "f", "i", "l", "e", " ", "%", "h", "/", "y", " ">> }

CfgTexts ==
    {DIRECTIVE \o <<" ">> \o t \o <<"\n">> : t \in StringsUpTo(TmplChars, MaxTmplLen)}
    \cup {Join(ls, <<"\n">>) : ls \in SeqsUpTo(CfgLineShapes, MaxCfgLines)}

InitCfg ==
    /\ \/ cfg_file = [exists |-> FALSE, readable |-> FALSE, text |-> <<>>]
       \/ cfg_file = [exists |-> TRUE, readable |-> FALSE, text |-> <<>>]
       \/ \E t \in CfgTexts :
              cfg_file = [exists |-> TRUE, readable |-> TRUE, text |-> t]
    /\ pw_dir = <<"/", "h">>
    /\ username = <<"u">>
    /\ call = "none" /\ outcome = "none" /\ result = None
    /\ InitParseIdle /\ InitMergeIdle

CallParseSshConfig ==
    /\ call = "none" /\ cfg_file # Idle
    /\ LET r == parse_ssh_config(cfg_file) IN
           /\ outcome' = IF r.exc = "none" THEN "ok" ELSE r.exc
           /\ result' = r.lines
    /\ call' = "parse_ssh_config"
    /\ UNCHANGED <<cfg_file, pw_dir, username, parse_vars, merge_vars>>

CallParseSshConfigMap ==
    /\ call = "none" /\ cfg_file # Idle
    /\ LET r == parse_ssh_config_map(cfg_file) IN
           /\ outcome' = IF r.exc = "none" THEN "ok" ELSE r.exc
           /\ result' = r.map
    /\ call' = "parse_ssh_config_map"
    /\ UNCHANGED <<cfg_file, pw_dir, username, parse_vars, merge_vars>>

CallExtractAuthorizedKeys ==
    /\ call = "none" /\ cfg_file # Idle
    /\ LET r == extract_authorized_keys(cfg_file, pw_dir, username) IN
           /\ outcome' = IF r.exc = "none" THEN "ok" ELSE r.exc
           /\ result' = IF r.exc = "none"
                        THEN [substituted |-> r.substituted,
                              auth_key_fn |-> r.auth_key_fn]
                        ELSE None
    /\ call' = "extract_authorized_keys"
    /\ UNCHANGED <<cfg_file, pw_dir, username, parse_vars, merge_vars>>

NextCfg == CallParseSshConfig \/ CallParseSshConfigMap \/ CallExtractAuthorizedKeys

SpecCfg == InitCfg /\ [][NextCfg]_vars

(***************************************************************************)
(* Properties of the merge (checked under SpecMerge).  prev_entries is the *)
(* existing list of the last call, old_entries the list it produced.       *)
(***************************************************************************)
Merged == merges >= 1
NExisting == Len(prev_entries)

\* positions of keys whose non-empty base64 equals the base64 of e
Matches(e) ==
    {j \in 1..Len(keys) : Truthy(keys[j].base64) /\ keys[j].base64 = e.base64}

MaxOf(S) == CHOOSE x \in S : \A y \in S : y <= x

\* the elements of lst at the positions in S, in order
RECURSIVE Pick(_, _, _)
Pick(lst, j, S) ==
    IF j > Len(lst) THEN <<>>
    ELSE (IF j \in S THEN <<lst[j]>> ELSE <<>>) \o Pick(lst, j + 1, S)

Appended == SubSeq(old_entries, NExisting + 1, Len(old_entries))

\* C1: the first len(existing) positions of the result keep the order of
\* existing; position i holds existing[i] itself when it has no base64 or no
\* desired entry has a non-empty base64 equal to it, and otherwise the desired
\* entry of greatest index whose base64 equals it (last match wins).
C1_LastMatchReplaces ==
    Merged =>
        /\ Len(old_entries) >= NExisting
        /\ \A i \in 1..NExisting :
              LET e == prev_entries[i] IN
              old_entries[i] =
                  IF ~Truthy(e.base64) \/ Matches(e) = {} THEN e
                  ELSE keys[MaxOf(Matches(e))]

\* an existing entry matched by two desired entries was replaced by the later
C1_Witness ==
    /\ merges = 1
    /\ \E i \in 1..NExisting :
          /\ Cardinality(Matches(prev_entries[i])) >= 2
          /\ old_entries[i] = keys[MaxOf(Matches(prev_entries[i]))]
          /\ old_entries[i] # prev_entries[i]
    /\ \E i \in 1..NExisting : old_entries[i] = prev_entries[i]

\* positions of the desired entries that won a replacement
Winners ==
    {MaxOf(Matches(prev_entries[i])) :
        i \in {n \in 1..NExisting : Truthy(prev_entries[n].base64)
                                    /\ Matches(prev_entries[n]) # {}}}

\* positions of the desired entries whose base64 matched an existing entry
Matched ==
    {j \in 1..Len(keys) :
        /\ Truthy(keys[j].base64)
        /\ \E i \in 1..NExisting : prev_entries[i].base64 = keys[j].base64}

\* C2 as stated: only the winning desired entry of a replacement leaves the
\* pending-append pool; every other desired entry, one that matched but lost
\* the tie-break included, is appended once, in the order of desired.
C2_OnlyWinnerRemoved ==
    Merged => Appended = Pick(keys, 1, (1..Len(keys)) \ Winners)

\* C2 as amended: every desired entry whose base64 matches an existing entry
\* leaves the pool, winner or not; the entries appended are exactly the
\* desired entries that matched no existing entry, once each, in the order
\* of desired.
C2_UnmatchedAppendedInOrder ==
    Merged => Appended = Pick(keys, 1, (1..Len(keys)) \ Matched)

\* a desired entry lost the tie-break and is not appended, another is
C2_Witness ==
    /\ merges = 1
    /\ Matched \ Winners # {}
    /\ Appended # <<>>
    /\ NExisting >= 1

HeadCount(k) == Cardinality({i \in 1..NExisting : old_entries[i] = k})
TailCount(k) ==
    Cardinality({i \in (NExisting + 1)..Len(old_entries) : old_entries[i] = k})

\* C3 as stated: no desired entry instance occupies more than one position
\* of the merged result.
C3_InstanceAtMostOnce ==
    Merged =>
        \A j \in 1..Len(keys) : HeadCount(keys[j]) + TailCount(keys[j]) <= 1

\* C3 as amended: a desired entry instance takes the place of every existing
\* entry that shares its base64 and for which it is the last match, so it may
\* occupy several of the first len(existing) positions; it is appended at
\* most once, and never appended when it replaced an existing entry.
C3_ReplacedNeverAppended ==
    Merged =>
        \A j \in 1..Len(keys) :
            LET k == keys[j] IN
            /\ TailCount(k) <= 1
            /\ (\E i \in 1..NExisting :
                    old_entries[i] = k /\ prev_entries[i] # k)
                   => TailCount(k) = 0
            /\ \A i \in 1..NExisting :
                   old_entries[i] = k =>
                       prev_entries[i] = k \/ prev_entries[i].base64 = k.base64

\* one desired instance replaced two existing entries
C3_Witness ==
    /\ merges = 1
    /\ \E j \in 1..Len(keys) : HeadCount(keys[j]) >= 2 /\ TailCount(keys[j]) = 0

\* C4: the returned text ends with exactly one trailing newline: it is not
\* empty, its last character is "\n", and it does not end with "\n\n".
C4_ExactlyOneTrailingNewline ==
    Merged =>
        /\ content # <<>>
        /\ content[Len(content)] = "\n"
        /\ ~(Len(content) >= 2 /\ content[Len(content) - 1] = "\n")

DistinctKeys ==
    /\ \A j \in 1..Len(keys) : Truthy(keys[j].base64)
    /\ \A i, j \in 1..Len(keys) : i # j => keys[i].base64 # keys[j].base64

\* C10: for a desired list whose entries all have a non-empty base64, pairwise
\* different, merging it a second time into the list the first merge produced
\* appends nothing and replaces nothing by a different entry, and the
\* returned text is the text of the first merge.
C10_SecondMergeIdempotent ==
    (merges >= 2 /\ DistinctKeys) =>
        /\ old_entries = prev_entries
        /\ content = prev_content

\* after two merges of two distinct keys, one sits in the place of an
\* existing entry and the other was appended after an entry left alone
C10_Witness ==
    /\ merges = 2 /\ DistinctKeys /\ Len(keys) = 2
    /\ Len(old_entries) >= 3
    /\ \E i \in 1..(Len(old_entries) - 1) : old_entries[i] = keys[1]
    /\ old_entries[Len(old_entries)] = keys[2]
    /\ \E i \in 1..Len(old_entries) : ~InList(old_entries[i], keys)
    /\ content = prev_content

(***************************************************************************)
(* Properties of the line parser (checked under SpecParse)                 *)
(***************************************************************************)
Parsed == ppc \in {"parsed", "rendered", "reparsed"}
Rendered == ppc \in {"rendered", "reparsed"}

\* C5: an entry that parse returns with no base64 (a comment, a blank line,
\* a malformed line) renders as the raw line's text exactly, whatever the
\* default options.
C5_NoBase64RendersSource ==
    (Rendered /\ ~Truthy(ent.base64)) => rendered = src_line

\* the raw line, trailing CR/LF stripped, is blank or has '#' as its first
\* character that is not whitespace
IsCommentOrBlank(l) ==
    LET t == LStrip(RStrip(l, {"\r", "\n"}), WS) IN
    t = <<>> \/ Head(t) = "#"

\* C6: parse returns an empty entry (keytype, base64, comment and options
\* unset, source the raw line) for every blank line and every line whose
\* first non-whitespace character is '#', blanks or tabs before the '#'
\* included; default options are never attached to it.
C6_CommentOrBlankIsPassthrough ==
    (Parsed /\ IsCommentOrBlank(src_line)) =>
        ent = AuthKeyLine(src_line, None, None, None, None)

\* C7: for a line parsed without default options into an entry with a
\* base64, parsing the rendered entry again gives the same keytype, base64,
\* comment and options.  Stated for the lines that hold no '#', so that a
\* violation does not rest on the comment test of parse.
C7_RoundTrip ==
    (ppc = "reparsed" /\ def_opt = None /\ Truthy(ent.base64)
        /\ \A i \in 1..Len(src_line) : src_line[i] # "#") =>
        /\ ent2.keytype = ent.keytype
        /\ ent2.base64 = ent.base64
        /\ ent2.comment = ent.comment
        /\ ent2.options = ent.options

(***************************************************************************)
(* Properties of the sshd_config functions (checked under SpecCfg)         *)
(***************************************************************************)
Called == call # "none"

\* C8: with the directive "AuthorizedKeysFile %%h/%u", home "/h" and user
\* "u", the three replacements leave the escaped percent literal: the
\* substituted string is "%h/u".
C8_EscapedPercentStaysLiteral ==
    (/\ call = "extract_authorized_keys"
     /\ cfg_file.exists /\ cfg_file.readable
     /\ cfg_file.text = DIRECTIVE \o <<" ">> \o <<"%", "%", "h", "/", "%", "u">> \o <<"\n">>
     /\ pw_dir = <<"/", "h">> /\ username = <<"u">>)
        => (outcome = "ok" /\ result.substituted = <<"%", "h", "/", "u">>)

\* some physical line of the text is not blank, is not a comment once
\* trimmed, and holds no whitespace inside (a key with no value)
HasKeyWithoutValue(text) ==
    \E n \in 1..Len(SplitLines(text)) :
        LET l == Strip(SplitLines(text)[n]) IN
        /\ l # <<>>
        /\ Head(l) # "#"
        /\ \A i \in 1..Len(l) : l[i] \notin WS

\* position of the first such line
FirstKeyWithoutValue(text) ==
    CHOOSE n \in 1..Len(SplitLines(text)) :
        /\ HasKeyWithoutValue(SplitLines(text)[n])
        /\ \A m \in 1..(n - 1) : ~HasKeyWithoutValue(SplitLines(text)[m])

\* C9: when any line of the sshd_config text is a key with no value,
\* parse_ssh_config and parse_ssh_config_map raise and return nothing, and
\* extract_authorized_keys lets the error through to its caller instead of
\* settling on a default file name.
C9_KeyWithoutValueRaises ==
    (Called /\ cfg_file.exists /\ cfg_file.readable
        /\ HasKeyWithoutValue(cfg_file.text)) =>
        (outcome = "ValueError" /\ result = None)

\* extract_authorized_keys raised on a file whose bad line comes after two
\* well-formed ones
C9_Witness ==
    /\ call = "extract_authorized_keys"
    /\ outcome = "ValueError"
    /\ cfg_file.readable
    /\ HasKeyWithoutValue(cfg_file.text)
    /\ FirstKeyWithoutValue(cfg_file.text) = 3

====
